---- MODULE Spec2Model ----
(***************************************************************************)
(* Model of src/analyzer.py: the batch pipeline `analyze` that loads a     *)
(* distance log, computes dt, raw and filtered derivatives, sanitises the  *)
(* table, exports it and reports a sample rate.                            *)
(*                                                                         *)
(* Numbers.  A float cell is modelled as a pair <<n, d>>:                  *)
(*   d > 0  : the exact rational n/d in lowest terms,                      *)
(*   <<1,0>>: +inf,   <<-1,0>>: -inf,   <<0,0>>: NaN (the missing marker). *)
(* Arithmetic follows IEEE-754 for the special values; finite arithmetic   *)
(* is exact (rounding error and overflow of finite values are not          *)
(* modelled).                                                              *)
(***************************************************************************)
EXTENDS Integers, Sequences, FiniteSets, TLC

\* ------------------------------------------------------------------ bounds
MaxRows == 4
MaxWindow == 3

\* ------------------------------------------------------- float arithmetic
NaN == <<0, 0>>
Inf == <<1, 0>>
NegInf == <<-1, 0>>

Abs(x) == IF x < 0 THEN -x ELSE x

Sign(x) == IF x < 0 THEN -1 ELSE IF x > 0 THEN 1 ELSE 0

RECURSIVE Gcd(_, _)
Gcd(a, b) == IF b = 0 THEN a ELSE Gcd(b, a % b)

\* the rational n/d (d # 0) in lowest terms with a positive denominator
Rat(n, d) ==
    LET g == Gcd(Abs(n), Abs(d))
        s == IF d < 0 THEN -1 ELSE 1
    IN  <<(s * n) \div g, (s * d) \div g>>

isna(x) == x = NaN

isinf(x) == x = Inf \/ x = NegInf

IsFinite(x) == x[2] > 0

FNeg(x) == <<-x[1], x[2]>>

\* a - b
FSub(a, b) ==
    IF isna(a) \/ isna(b) THEN NaN
    ELSE IF isinf(a) THEN (IF b = a THEN NaN ELSE a)
    ELSE IF isinf(b) THEN FNeg(b)
    ELSE Rat(a[1] * b[2] - b[1] * a[2], a[2] * b[2])

\* a + b
FAdd(a, b) == FSub(a, FNeg(b))

\* a / b (float division: x/0 is +-inf, 0/0 is NaN, finite/inf is 0)
FDiv(a, b) ==
    IF isna(a) \/ isna(b) THEN NaN
    ELSE IF isinf(a) THEN
        (IF isinf(b) THEN NaN
         ELSE IF b[1] < 0 THEN FNeg(a) ELSE a)
    ELSE IF isinf(b) THEN <<0, 1>>
    ELSE IF b[1] = 0 THEN
        (IF a[1] = 0 THEN NaN ELSE <<Sign(a[1]), 0>>)
    ELSE Rat(a[1] * b[2], a[2] * b[1])

\* a > b (any comparison with NaN is false)
FGt(a, b) ==
    IF isna(a) \/ isna(b) THEN FALSE
    ELSE IF a = b THEN FALSE
    ELSE IF a = Inf \/ b = NegInf THEN TRUE
    ELSE IF a = NegInf \/ b = Inf THEN FALSE
    ELSE a[1] * b[2] > b[1] * a[2]

\* round(x, 1) for a finite x: nearest multiple of 1/10, ties to even
Round1(x) ==
    LET n10 == 10 * x[1]
        q == n10 \div x[2]
        r2 == 2 * (n10 % x[2])
        k == IF r2 > x[2] THEN q + 1
             ELSE IF r2 < x[2] THEN q
             ELSE IF q % 2 = 0 THEN q ELSE q + 1
    IN  Rat(k, 10)

\* ---------------------------------------------------------- Series helpers
\* Series.diff(): s[i] - s[i-1], missing at the first position
Diff(s) ==
    [i \in 1..Len(s) |-> IF i = 1 THEN NaN ELSE FSub(s[i], s[i - 1])]

\* element-wise division of two index-aligned columns
DivCols(a, b) == [i \in 1..Len(a) |-> FDiv(a[i], b[i])]

RECURSIVE SumSeq(_)
SumSeq(s) == IF s = <<>> THEN <<0, 1>> ELSE FAdd(Head(s), SumSeq(Tail(s)))

\* the entries of s satisfying Keep, in order
RECURSIVE SelectIdx(_, _, _)
SelectIdx(s, keep, i) ==
    IF i > Len(s) THEN <<>>
    ELSE IF keep[i] THEN <<s[i]>> \o SelectIdx(s, keep, i + 1)
    ELSE SelectIdx(s, keep, i + 1)

\* Series.mean(): arithmetic mean of the non-missing entries, NaN if none
Mean(s) ==
    LET keep == [i \in 1..Len(s) |-> ~isna(s[i])]
        vals == SelectIdx(s, keep, 1)
    IN  IF vals = <<>> THEN NaN ELSE FDiv(SumSeq(vals), <<Len(vals), 1>>)

\* ------------------------------------------------------------ input domain
\* 1e-4, the dt threshold of the row filter
Eps == <<1, 10000>>

\* timestamps: 0, 1e-4, 3e-4 s, an infinite and an empty cell
TVals == {<<0, 1>>, <<1, 10000>>, <<3, 10000>>, Inf, NaN}

\* distances: 0, 1, 4 cm, an infinite and an empty cell
DVals == {<<0, 1>>, <<1, 1>>, <<4, 1>>, Inf, NaN}

\* a regular log: t = 0, 2e-4, 5e-4, 7e-4, 1e-3, ...
TimePattern(i) == Rat((5 * (i - 1)) \div 2, 10000)

\* an accelerating target: distance = 1, 2, 4, 7, 11, ...
DistPattern(i) == <<1 + (i * (i - 1)) \div 2, 1>>

\* the tables a file may hold: any timestamps against the accelerating
\* target, or any distances against the regular log
Tables ==
    UNION {
        {[t |-> ts, distance |-> [i \in 1..n |-> DistPattern(i)]] :
            ts \in [1..n -> TVals]}
        \cup
        {[t |-> [i \in 1..n |-> TimePattern(i)], distance |-> ds] :
            ds \in [1..n -> DVals]}
        : n \in 1..MaxRows}

\* a header cell: its name, a parenthesised unit ("" if none) and whether
\* it carries surrounding blanks
Hdr(name, unit, pad) == [name |-> name, unit |-> unit, pad |-> pad]

Plain(name) == Hdr(name, "", FALSE)

\* header rows: logger.py's, distance_log.py's, and two without the
\* required columns
Headers ==
    { <<Plain("t"), Plain("distance")>>,
      <<Hdr("t", "(s)", FALSE), Hdr("x_raw", "(cm)", FALSE),
        Hdr("v_raw", "(cm/s)", FALSE), Hdr("a_raw", "(cm/s2)", FALSE)>>,
      <<Hdr("time", "(s)", TRUE), Plain("distance")>>,
      <<Hdr("t", "", TRUE), Hdr("x", "(cm)", FALSE)>> }

\* the candidate encodings, in the order of the for loop
Encodings == <<"utf-8", "latin1">>

EmptyFrame ==
    [t |-> <<>>, distance |-> <<>>, dt |-> <<>>,
     velocity_raw |-> <<>>, acceleration_raw |-> <<>>,
     distance_f |-> <<>>, velocity_f |-> <<>>, acceleration_f |-> <<>>]

DataCols ==
    {"t", "distance", "dt", "velocity_raw", "acceleration_raw",
     "distance_f", "velocity_f", "acceleration_f"}

DerivedCols == DataCols \ {"t", "distance"}

\* ------------------------------------------------------------------- state
VARIABLES
    window,         \* the --window argument
    pc,             \* position in analyze
    enc_idx,        \* index of the encoding the for loop is at
    enc_used,       \* encoding that parsed the file ("" if none yet)
    file,           \* the table read_csv returned, as read
    columns,        \* df.columns
    df,             \* the data frame, column by column
    out_csv,        \* the processed CSV on disk
    sample_rate,    \* result of safe_sample_rate
    plot,           \* the comparison plot on disk
    summary,        \* whether summarize_stats has printed
    log             \* the diagnostics printed so far

vars == <<window, pc, enc_idx, enc_used, file, columns, df, out_csv,
          sample_rate, plot, summary, log>>

NoFile == [header |-> <<>>, t |-> <<>>, distance |-> <<>>]

NoCsv == [written |-> FALSE, columns |-> <<>>, data |-> EmptyFrame]

NoPlot == [saved |-> FALSE, window |-> 0, sample_rate |-> NaN]

Msg(kind, enc) == [kind |-> kind, enc |-> enc]

Init ==
    /\ window \in 1..MaxWindow
    /\ pc = "read"
    /\ enc_idx = 1
    /\ enc_used = ""
    /\ file = NoFile
    /\ columns = <<>>
    /\ df = EmptyFrame
    /\ out_csv = NoCsv
    /\ sample_rate = NaN
    /\ plot = NoPlot
    /\ summary = FALSE
    /\ log = <<>>

\* ------------------------------------------------- ingestion (lines 68-81)
InLoop == pc = "read" /\ enc_idx <= Len(Encodings)

\* read_csv parses the file under the current candidate: the loop breaks
ReadOk ==
    /\ InLoop
    /\ \E h \in Headers, tb \in Tables :
        /\ file' = [header |-> h, t |-> tb.t, distance |-> tb.distance]
        /\ columns' = h
        /\ df' = [EmptyFrame EXCEPT !.t = tb.t, !.distance = tb.distance]
    /\ enc_used' = Encodings[enc_idx]
    /\ log' = Append(log, Msg("loaded", Encodings[enc_idx]))
    /\ pc' = "normalize"
    /\ UNCHANGED <<window, enc_idx, out_csv, sample_rate, plot, summary>>

\* read_csv raises UnicodeDecodeError: the loop moves to the next candidate
ReadDecodeError ==
    /\ InLoop
    /\ log' = Append(log, Msg("decode_failed", Encodings[enc_idx]))
    /\ enc_idx' = enc_idx + 1
    /\ UNCHANGED <<window, pc, enc_used, file, columns, df, out_csv,
                   sample_rate, plot, summary>>

\* faulty variant of ReadOtherError: the error is treated like a decode failure
ReadOtherErrorRetries ==
    /\ InLoop
    /\ log' = Append(log, Msg("read_error", Encodings[enc_idx]))
    /\ enc_idx' = enc_idx + 1
    /\ UNCHANGED <<window, pc, enc_used, file, columns, df, out_csv,
                   sample_rate, plot, summary>>

\* read_csv raises any other exception: analyze returns
ReadOtherError ==
    /\ InLoop
    /\ log' = Append(log, Msg("read_error", Encodings[enc_idx]))
    /\ pc' = "aborted"
    /\ UNCHANGED <<window, enc_idx, enc_used, file, columns, df, out_csv,
                   sample_rate, plot, summary>>

\* the for loop's else branch: every candidate failed to decode
AllEncodingsFailed ==
    /\ pc = "read"
    /\ enc_idx > Len(Encodings)
    /\ log' = Append(log, Msg("all_failed", ""))
    /\ pc' = "aborted"
    /\ UNCHANGED <<window, enc_idx, enc_used, file, columns, df, out_csv,
                   sample_rate, plot, summary>>

\* ------------------------------------------- column normaliser (lines 84-90)
\* str.replace(r"\s*\(.*\)", "") then str.strip() on one header cell
StripUnits(h) == Plain(h.name)

\* rename(columns={"x_raw": "distance"})
RenameLegacy(h) == IF h = Plain("x_raw") THEN Plain("distance") ELSE h

NormalizeHeaders(cols) ==
    [i \in 1..Len(cols) |-> RenameLegacy(StripUnits(cols[i]))]

HasColumn(cols, name) == \E i \in 1..Len(cols) : cols[i] = Plain(name)

\* faulty variant of HasRequired: any() in place of all()
HasRequiredAny(cols) == HasColumn(cols, "t") \/ HasColumn(cols, "distance")

\* all(col in df.columns for col in ["t", "distance"])
HasRequired(cols) == HasColumn(cols, "t") /\ HasColumn(cols, "distance")

Normalize ==
    /\ pc = "normalize"
    /\ columns' = NormalizeHeaders(columns)
    /\ pc' = "validate"
    /\ UNCHANGED <<window, enc_idx, enc_used, file, df, out_csv,
                   sample_rate, plot, summary, log>>

ValidateOk ==
    /\ pc = "validate"
    /\ HasRequired(columns)
    /\ pc' = "dt"
    /\ UNCHANGED <<window, enc_idx, enc_used, file, columns, df, out_csv,
                   sample_rate, plot, summary, log>>

ValidateFail ==
    /\ pc = "validate"
    /\ ~HasRequired(columns)
    /\ log' = Append(log, Msg("missing_columns", enc_used))
    /\ pc' = "aborted"
    /\ UNCHANGED <<window, enc_idx, enc_used, file, columns, df, out_csv,
                   sample_rate, plot, summary>>

\* faulty variant of KeepRow: the comparison made inclusive (dt >= 1e-4)
KeepRowInclusive(dt) == FGt(dt, Eps) \/ dt = Eps

\* ------------------------------------------ time-delta step (lines 93-94)
\* ------------------------------------------ time-delta step (lines 93-94)
\* df["dt"] > 1e-4, one row
KeepRow(dt) == FGt(dt, Eps)

\* df["dt"] = df["t"].diff()
TimeDelta(f) == [f EXCEPT !.dt = Diff(f.t)]

\* df[df["dt"] > 1e-4].reset_index(drop=True): the kept rows, renumbered
DropDegenerate(f) ==
    LET keep == [i \in 1..Len(f.dt) |-> KeepRow(f.dt[i])]
    IN  [f EXCEPT !.t = SelectIdx(f.t, keep, 1),
                  !.distance = SelectIdx(f.distance, keep, 1),
                  !.dt = SelectIdx(f.dt, keep, 1)]

ComputeDt ==
    /\ pc = "dt"
    /\ df' = DropDegenerate(TimeDelta(df))
    /\ columns' = Append(columns, Plain("dt"))
    /\ pc' = "raw"
    /\ UNCHANGED <<window, enc_idx, enc_used, file, out_csv, sample_rate,
                   plot, summary, log>>

\* --------------------------------------- raw derivatives (lines 97-98)
RawDerivatives(f) ==
    LET v == DivCols(Diff(f.distance), f.dt)
    IN  [f EXCEPT !.velocity_raw = v,
                  !.acceleration_raw = DivCols(Diff(v), f.dt)]

ComputeRaw ==
    /\ pc = "raw"
    /\ df' = RawDerivatives(df)
    /\ columns' = columns \o <<Plain("velocity_raw"), Plain("acceleration_raw")>>
    /\ pc' = "filtered"
    /\ UNCHANGED <<window, enc_idx, enc_used, file, out_csv, sample_rate,
                   plot, summary, log>>

\* ------------------------------- smoothing and recalc (lines 16-17, 101-103)
Max(a, b) == IF a > b THEN a ELSE b

Min(a, b) == IF a < b THEN a ELSE b

\* faulty variant of moving_average: a trailing window (center=False)
moving_average_trailing(signal, w) ==
    LET n == Len(signal)
        vals == [i \in 1..n |-> IF isinf(signal[i]) THEN NaN ELSE signal[i]]
    IN  [i \in 1..n |-> Mean(SubSeq(vals, Max(1, i - w + 1), i))]

\* rolling(window=w, center=True, min_periods=1).mean(): the window of
\* position i (1-based) is the w positions ending (w-1) \div 2 after i,
\* clipped to the series; infinite entries count as missing, and the mean
\* is over the non-missing entries of the window (missing if there is none)
moving_average(signal, w) ==
    LET n == Len(signal)
        offset == (w - 1) \div 2
        vals == [i \in 1..n |-> IF isinf(signal[i]) THEN NaN ELSE signal[i]]
        hi(i) == Min(n, i + offset)
        lo(i) == Max(0, i + offset - w) + 1
    IN  [i \in 1..n |-> Mean(SubSeq(vals, lo(i), hi(i)))]

\* faulty variant of FilteredDerivatives: the velocity differenced from the raw
\* distance instead of the smoothed one
FilteredDerivativesFromRaw(f, w) ==
    LET df_ == moving_average(f.distance, w)
        v == DivCols(Diff(f.distance), f.dt)
    IN  [f EXCEPT !.distance_f = df_,
                  !.velocity_f = v,
                  !.acceleration_f = DivCols(Diff(v), f.dt)]

FilteredDerivatives(f, w) ==
    LET df_ == moving_average(f.distance, w)
        v == DivCols(Diff(df_), f.dt)
    IN  [f EXCEPT !.distance_f = df_,
                  !.velocity_f = v,
                  !.acceleration_f = DivCols(Diff(v), f.dt)]

ComputeFiltered ==
    /\ pc = "filtered"
    /\ df' = FilteredDerivatives(df, window)
    /\ columns' = columns \o <<Plain("distance_f"), Plain("velocity_f"),
                               Plain("acceleration_f")>>
    /\ pc' = "clean"
    /\ UNCHANGED <<window, enc_idx, enc_used, file, out_csv, sample_rate,
                   plot, summary, log>>

\* ------------------------------------------------- sanitiser (line 106)
\* faulty variant of CleanCell: only +inf is replaced
CleanCellPositiveOnly(x) == IF x = Inf THEN NaN ELSE x

\* replace([inf, -inf], nan) on one cell
CleanCell(x) == IF isinf(x) THEN NaN ELSE x

CleanColumn(s) == [i \in 1..Len(s) |-> CleanCell(s[i])]

\* df.replace([np.inf, -np.inf], np.nan): every column of the frame
CleanInfinities(f) ==
    [t |-> CleanColumn(f.t),
     distance |-> CleanColumn(f.distance),
     dt |-> CleanColumn(f.dt),
     velocity_raw |-> CleanColumn(f.velocity_raw),
     acceleration_raw |-> CleanColumn(f.acceleration_raw),
     distance_f |-> CleanColumn(f.distance_f),
     velocity_f |-> CleanColumn(f.velocity_f),
     acceleration_f |-> CleanColumn(f.acceleration_f)]

Clean ==
    /\ pc = "clean"
    /\ df' = CleanInfinities(df)
    /\ pc' = "save"
    /\ UNCHANGED <<window, enc_idx, enc_used, file, columns, out_csv,
                   sample_rate, plot, summary, log>>

\* ---------------------------------------------------- export (lines 109-113)
SaveCsv ==
    /\ pc = "save"
    /\ out_csv' = [written |-> TRUE, columns |-> columns, data |-> df]
    /\ log' = Append(log, Msg("saved_csv", enc_used))
    /\ pc' = "report"
    /\ UNCHANGED <<window, enc_idx, enc_used, file, columns, df,
                   sample_rate, plot, summary>>

\* ------------------------------------ sample rate (lines 19-21, 116-118)
\* faulty variant of safe_sample_rate: the avg_dt > 0 guard dropped
safe_sample_rate_unguarded(f) ==
    LET avg_dt == Mean(f.dt)
    IN  IF ~isna(avg_dt)
        THEN (LET r == FDiv(<<1, 1>>, avg_dt)
              IN  IF IsFinite(r) THEN Round1(r) ELSE r)
        ELSE NaN

\* round(1 / avg_dt, 1) if pd.notna(avg_dt) and avg_dt > 0 else nan
safe_sample_rate(f) ==
    LET avg_dt == Mean(f.dt)
    IN  IF ~isna(avg_dt) /\ FGt(avg_dt, <<0, 1>>)
        THEN (LET r == FDiv(<<1, 1>>, avg_dt)
              IN  IF IsFinite(r) THEN Round1(r) ELSE r)
        ELSE NaN

\* safe_sample_rate, make_plots and summarize_stats: readers of df
PlotAndSummarize ==
    /\ pc = "report"
    /\ sample_rate' = safe_sample_rate(df)
    /\ plot' = [saved |-> TRUE, window |-> window,
                sample_rate |-> safe_sample_rate(df)]
    /\ summary' = TRUE
    /\ log' = Append(log, Msg("saved_plot", enc_used))
    /\ pc' = "done"
    /\ UNCHANGED <<window, enc_idx, enc_used, file, columns, df, out_csv>>

\* ------------------------------------------------------------ specification
Next ==
    \/ ReadOk
    \/ ReadDecodeError
    \/ ReadOtherError
    \/ AllEncodingsFailed
    \/ Normalize
    \/ ValidateOk
    \/ ValidateFail
    \/ ComputeDt
    \/ ComputeRaw
    \/ ComputeFiltered
    \/ Clean
    \/ SaveCsv
    \/ PlotAndSummarize

Spec == Init /\ [][Next]_vars

\* ------------------------------- safe_sample_rate on arbitrary dt columns
\* timestamps for the direct applications: 0, 3e-4, 0.05, 1 s, an infinite
\* and an empty cell
RateTVals == {<<0, 1>>, <<3, 10000>>, <<1, 20>>, <<1, 1>>, Inf, NaN}

\* a frame of 0..MaxRows rows with its dt column, unfiltered
InitRate ==
    /\ window \in {1}
    /\ pc = "rate_in"
    /\ enc_idx = 1
    /\ enc_used = ""
    /\ file = NoFile
    /\ columns = <<Plain("t"), Plain("dt")>>
    /\ \E n \in 0..MaxRows : \E ts \in [1..n -> RateTVals] :
        df = TimeDelta([EmptyFrame EXCEPT !.t = ts])
    /\ out_csv = NoCsv
    /\ sample_rate = NaN
    /\ plot = NoPlot
    /\ summary = FALSE
    /\ log = <<>>

ApplyRate ==
    /\ pc = "rate_in"
    /\ sample_rate' = safe_sample_rate(df)
    /\ pc' = "rate_out"
    /\ UNCHANGED <<window, enc_idx, enc_used, file, columns, df, out_csv,
                   plot, summary, log>>

NextRate ==
    \/ Next
    \/ ApplyRate

\* the pipeline, and safe_sample_rate applied to frames of its own
SpecRate == (Init \/ InitRate) /\ [][NextRate]_vars

\* ------------------------------------------------------------------ claims
\* the processed Series: df once the sanitiser has run
Processed == pc \in {"save", "report", "done"}

\* the Series between the time-delta step and the sanitiser
Filtered == pc \in {"raw", "filtered", "clean"}

Rows == 1..Len(df.t)

\* (x[i] - x[i-1]) / dt[i] on the columns of df
BackDiff(x, i) == FDiv(FSub(x[i], x[i - 1]), df.dt[i])

DiffRuleAt(i) ==
    /\ i > 1 => /\ df.velocity_raw[i] = BackDiff(df.distance, i)
                /\ df.velocity_f[i] = BackDiff(df.distance_f, i)
    /\ i > 2 => /\ df.acceleration_raw[i] = BackDiff(df.velocity_raw, i)
                /\ df.acceleration_f[i] = BackDiff(df.velocity_f, i)

LeadingMissing ==
    \A i \in Rows :
        /\ i = 1 => isna(df.velocity_raw[i]) /\ isna(df.velocity_f[i])
        /\ i <= 2 => isna(df.acceleration_raw[i]) /\ isna(df.acceleration_f[i])

\* C1 as stated: in the processed Series every row i>0 has
\* velocity = (x[i]-x[i-1])/dt[i] and every row i>1 has
\* acceleration = (v[i]-v[i-1])/dt[i], raw and filtered alike, and the
\* leading cells are missing.
C1_AsStated ==
    Processed => LeadingMissing /\ \A i \in Rows : DiffRuleAt(i)

\* C1 (amended): the same backward-difference rule holds in the processed
\* Series for every row whose dt cell is not missing there (a row kept with
\* dt = +inf has its dt blanked by the sanitiser after the derivatives were
\* computed from it); the leading cells are missing.
C1_BackwardDifference ==
    Processed =>
        /\ LeadingMissing
        /\ \A i \in Rows : ~isna(df.dt[i]) => DiffRuleAt(i)

\* C1 witness: a processed Series of three rows with defined, non-zero raw
\* and filtered accelerations that differ from one another.
C1_Witness ==
    /\ Processed
    /\ Len(df.t) >= 3
    /\ IsFinite(df.acceleration_raw[3]) /\ df.acceleration_raw[3][1] # 0
    /\ IsFinite(df.acceleration_f[3]) /\ df.acceleration_f[3][1] # 0
    /\ df.acceleration_f[3] # df.acceleration_raw[3]

\* C2 as stated: every row of the processed Series has a defined dt > 1e-4.
C2_AsStated ==
    Processed => \A i \in Rows : FGt(df.dt[i], Eps)

\* C2 (amended): every row that survives the time-delta filter has
\* dt > 1e-4 when the filter completes, and the rows are indexed 1..n in
\* every column; in the processed Series a dt cell is > 1e-4 or, where the
\* kept dt was +inf (an infinite timestamp), the missing marker.
C2_DtAboveEps ==
    /\ Filtered =>
        /\ \A i \in Rows : FGt(df.dt[i], Eps)
        /\ DOMAIN df.dt = Rows /\ DOMAIN df.distance = Rows
    /\ Processed =>
        /\ \A i \in Rows :
            \/ FGt(df.dt[i], Eps) /\ IsFinite(df.dt[i])
            \/ isna(df.dt[i]) /\ isna(df.t[i])
        /\ DOMAIN df.dt = Rows /\ DOMAIN df.distance = Rows

\* C2 witness: the filter has dropped a row whose dt was exactly 1e-4 and a
\* row with a negative dt, and has kept at least one row.
C2_Witness ==
    /\ Filtered
    /\ Len(df.t) >= 1
    /\ \E i, j \in 2..Len(file.t) :
        /\ FSub(file.t[i], file.t[i - 1]) = Eps
        /\ FGt(<<0, 1>>, FSub(file.t[j], file.t[j - 1]))

\* dt of input row i to the preceding input row
InputDt(i) == FSub(file.t[i], file.t[i - 1])

\* rows whose dt to the preceding input row is <= 1e-4
Degenerate ==
    {i \in 2..Len(file.t) : IsFinite(InputDt(i)) /\ ~FGt(InputDt(i), Eps)}

\* C3 as stated: for an input (of finite timestamps) that contains rows
\* whose dt to the preceding input row is <= 1e-4, the processed output has
\* as many rows as the input minus the number of those rows.
C3_RowCount ==
    (/\ Processed
     /\ \A i \in 1..Len(file.t) : IsFinite(file.t[i])
     /\ Degenerate # {})
        => Len(df.t) = Len(file.t) - Cardinality(Degenerate)

\* C9 as stated: once the time-delta filter completes, the (finite) t values
\* of the kept rows are strictly increasing in row order.
C9_TimeOrder ==
    (Filtered \/ Processed) =>
        \A i, j \in Rows :
            (i < j /\ IsFinite(df.t[i]) /\ IsFinite(df.t[j]))
                => FGt(df.t[j], df.t[i])

\* C10 as stated: in the processed Series dt[i] = t[i] - t[i-1] for every
\* row i>0 (of finite timestamps), i-1 being the preceding row of the
\* re-indexed Series.
C10_DtIsRowDifference ==
    (Filtered \/ Processed) =>
        \A i \in Rows :
            (i > 1 /\ IsFinite(df.t[i]) /\ IsFinite(df.t[i - 1]))
                => df.dt[i] = FSub(df.t[i], df.t[i - 1])

\* arithmetic mean of x[lo..hi], all entries taken as they are
WindowMean(x, lo, hi) == FDiv(SumSeq(SubSeq(x, lo, hi)), <<hi - lo + 1, 1>>)

C5_NoInfinity ==
    /\ Processed =>
        \A c \in DerivedCols : \A i \in 1..Len(df[c]) : ~isinf(df[c][i])
    /\ out_csv.written =>
        \A c \in DerivedCols :
            \A i \in 1..Len(out_csv.data[c]) : ~isinf(out_csv.data[c][i])

\* C5 witness: a table was exported whose input held an infinite distance
\* in a kept row that has a kept successor (so a derivative was infinite
\* before the sanitiser ran).
C5_Witness ==
    /\ out_csv.written
    /\ \A i \in 1..Len(file.t) : IsFinite(file.t[i])
    /\ Len(file.t) >= 3
    /\ isinf(file.distance[2])
    /\ IsFinite(file.distance[3])
    /\ Len(out_csv.data.t) = Len(file.t) - 1

\* C7: the CSV, the plot and the summary exist only after a successful read
\* with both required columns present; an aborted run has produced none of
\* them and aborts only on a read or schema failure; a run past validation
\* has printed no failure diagnostic, whatever the samples.
C7_OutputOnlyWhenValid ==
    /\ (out_csv.written \/ plot.saved \/ summary) =>
        /\ enc_used # ""
        /\ \E i, j \in 1..Len(columns) :
            columns[i] = Plain("t") /\ columns[j] = Plain("distance")
    /\ pc = "aborted" =>
        /\ ~out_csv.written /\ ~plot.saved /\ ~summary
        /\ log[Len(log)].kind \in {"read_error", "all_failed", "missing_columns"}
    /\ pc = "done" => out_csv.written /\ plot.saved /\ summary
    /\ (pc \notin {"read", "normalize", "validate", "aborted"}) =>
        log[Len(log)].kind \in {"loaded", "saved_csv", "saved_plot"}

\* C7 witness: a run over a table with no usable sample (every row
\* dropped, sample rate undefined) that still exported, plotted and
\* summarised.
C7_Witness ==
    /\ pc = "done"
    /\ out_csv.written /\ plot.saved /\ summary
    /\ Len(file.t) >= 2
    /\ Len(df.t) = 0
    /\ isna(sample_rate)

\* the read attempts, in order, as the log shows them
Attempts ==
    SelectSeq(log, LAMBDA m : m.kind \in {"loaded", "decode_failed", "read_error"})

\* C8: candidates are tried in the order utf-8, latin1; only a decode
\* failure is followed by another attempt; a read error aborts at once; a
\* successful read is the last attempt and names the encoding used; when
\* every candidate failed to decode the run aborts with the
\* no-viable-encoding diagnostic.
C8_EncodingOrder ==
    LET a == Attempts
        n == Len(a)
    IN  /\ n <= Len(Encodings)
        /\ \A k \in 1..n : a[k].enc = Encodings[k]
        /\ \A k \in 1..n : k < n => a[k].kind = "decode_failed"
        /\ (n > 0 /\ a[n].kind = "read_error") =>
              pc = "aborted" /\ log[Len(log)] = a[n]
        /\ (n > 0 /\ a[n].kind = "loaded") =>
              enc_used = a[n].enc /\ pc # "read"
        /\ (n = Len(Encodings) /\ a[n].kind = "decode_failed" /\ pc # "read")
              => pc = "aborted" /\ log[Len(log)] = Msg("all_failed", "")
        /\ (\E k \in 1..Len(log) : log[k].kind = "all_failed") =>
              n = Len(Encodings) /\ a[n].kind = "decode_failed"

\* C8 witness: utf-8 failed to decode, latin1 parsed, and the run finished
\* with latin1 recorded as the encoding used.
C8_Witness ==
    /\ pc = "done"
    /\ enc_used = "latin1"
    /\ Attempts = <<Msg("decode_failed", "utf-8"), Msg("loaded", "latin1")>>

\* r is a multiple of 0.1 nearest to x
NearestTenth(r, x) ==
    /\ IsFinite(r)
    /\ 10 % r[2] = 0
    /\ ~FGt(FSub(r, x), <<1, 20>>)
    /\ ~FGt(FSub(x, r), <<1, 20>>)

====
